---- MODULE Spec2Model ----
(***************************************************************************)
(* The session lifecycle manager of the VC interview service               *)
(* (src/services/interview.py, InterviewService) together with the HTTP    *)
(* handlers of src/main.py that drive it and the periodic cleanup task.    *)
(*                                                                         *)
(* The service runs on one asyncio event loop: a handler runs without      *)
(* interruption until it reaches an await that really suspends, and other  *)
(* handlers may run while it is suspended.  Each handler is one action     *)
(* when it has no such await, and a Begin action (up to the await)         *)
(* followed by a Resume action (the rest) when it has one.                 *)
(*                                                                         *)
(* Python values: a str is a sequence of chunks (a word or a run of white  *)
(* space); Optional[x] is <<>> for None and <<x>> for a value; a dict with *)
(* fixed keys is a record; a list is a sequence.                           *)
(*                                                                         *)
(* Left out: the wall-clock timestamp stored with each response and the    *)
(* duration get_interview_result derives from it (no handler branches on   *)
(* them), and the bytes of uploaded files.                                 *)
(***************************************************************************)
EXTENDS Integers, Sequences, FiniteSets, Bags, TLC

(***************************************************************************)
(* Bounds of the model.                                                    *)
(***************************************************************************)
\* sessions created in one behaviour
MaxSessions == 2
\* handler coroutines suspended at an await at the same time (any number of
\* handlers that never suspend run while they are suspended)
MaxInFlight == 1
\* ticks of the clock (one tick is TickSeconds)
MaxTime == 1
\* rows of the questions CSV the service starts from
MaxCsvRows == 1
\* words of a text handed to the sentiment scorer on its own
MaxWords == 3

(***************************************************************************)
(* Program constants.                                                      *)
(***************************************************************************)
\* cleanup_old_sessions: max_age_seconds = max_age_hours * 3600
SecondsPerHour == 3600
\* _generate_cv_questions: return questions[:2]
MaxCvQuestions == 2
\* cleanup_task: interview_service.cleanup_old_sessions(24)
CleanupMaxAgeHours == 24

\* The clock advances in steps of 25 hours: one step takes a session past the
\* age at which the sweep of cleanup_task removes it.
TickSeconds == (CleanupMaxAgeHours + 1) * SecondsPerHour

(***************************************************************************)
(* Python values.                                                          *)
(***************************************************************************)
None == <<>>
Some(x) == <<x>>
IsNone(o) == o = <<>>
\* Python truthiness of an Optional[str]: None and "" are both false
\* A faulty test that takes an empty string for a value
NotNone(o) == o /= <<>>

Truthy(o) == o /= <<>> /\ o[1] /= <<>>

RECURSIVE Decimal(_)
\* str(n) for a natural number n, as a sequence of digit characters
Decimal(n) ==
    LET d == <<"0", "1", "2", "3", "4", "5", "6", "7", "8", "9">>
    IN  IF n < 10 THEN <<d[n + 1]>> ELSE Decimal(n \div 10) \o <<d[(n % 10) + 1]>>

\* The n-th identifier str(uuid.uuid4()) hands out: uuid4 values are distinct
\* and hold no "_" character.
Uuid(n) == <<"u">> \o Decimal(n)

SessionIds == {Uuid(n) : n \in 1..MaxSessions}

\* f"{session_id}_{index}"
QuestionId(session_id, index) == session_id \o <<"_">> \o Decimal(index)

\* f"{session_id}_response_{n}"
ResponseId(session_id, n) == session_id \o <<"_", "response", "_">> \o Decimal(n)

(***************************************************************************)
(* analysis.py: the lexical sentiment scorer.                              *)
(***************************************************************************)
negative_words ==
    {"no", "not", "never", "disagree", "bad", "difficult", "problem", "issue",
     "challenging", "worried", "concerned", "unsure", "unclear",
     "unfortunately", "fail"}

positive_words ==
    {"yes", "agree", "good", "great", "excellent", "success", "opportunity",
     "excited", "confident", "proven", "growth", "improvement", "innovative",
     "solution", "profit"}

\* str.lower() on one chunk
Lower(w) ==
    CASE w = "Good" -> "good"
      [] w = "BAD" -> "bad"
      [] w = "No" -> "no"
      [] OTHER -> w

IsSpace(c) == c \in {" ", "\n", "\t"}

\* str.split(): the chunks of the text that are not white space
Split(text) == SelectSeq(text, LAMBDA c : ~IsSpace(c))

RECURSIVE CountInExact(_, _)
\* A faulty count that compares the words as they are written
CountInExact(words, S) ==
    IF words = <<>> THEN 0
    ELSE (IF Head(words) \in S THEN 1 ELSE 0) + CountInExact(Tail(words), S)

RECURSIVE CountIn(_, _)
CountIn(words, S) ==
    IF words = <<>> THEN 0
    ELSE (IF Lower(Head(words)) \in S THEN 1 ELSE 0) + CountIn(Tail(words), S)

RECURSIVE Gcd(_, _)
Gcd(a, b) == IF b = 0 THEN a ELSE Gcd(b, a % b)

Abs(x) == IF x < 0 THEN -x ELSE x

\* The float a / b (b > 0) as the fraction in lowest terms: two floats are
\* equal exactly when their fractions are.
Ratio(a, b) == LET g == Gcd(Abs(a), b) IN [num |-> a \div g, den |-> b \div g]

analyze_sentiment(text) ==
    LET negative_count == CountIn(Split(text), negative_words)
        positive_count == CountIn(Split(text), positive_words)
        total == negative_count + positive_count
    IN  IF total = 0
        THEN [score |-> Ratio(0, 1), magnitude |-> Ratio(0, 1)]
        ELSE [score |-> Ratio(positive_count - negative_count, total),
              magnitude |-> Ratio(total, Len(Split(text)))]

(***************************************************************************)
(* interview.py: the question source and the CV question generator.        *)
(***************************************************************************)
FallbackStandardQuestions ==
    << [text |-> "Tell me about your startup.",
        expected_response |-> "Clear explanation of the startup concept and vision."],
       [text |-> "What problem are you solving?",
        expected_response |-> "Specific problem statement with market impact."],
       [text |-> "Who are your target customers?",
        expected_response |-> "Detailed customer segmentation with clear needs."] >>

\* Rows a questions CSV may hold, in file order
CsvRows ==
    << [text |-> "What is your revenue model?",
        expected_response |-> "Clear monetisation plan."],
       [text |-> "Who are your competitors?",
        expected_response |-> "Honest competitive landscape."],
       [text |-> "How large is the market?",
        expected_response |-> "Sized market with sources."],
       [text |-> "Why now?",
        expected_response |-> "Timing argument."] >>

\* What pd.read_csv can give: the rows of a CSV of at most MaxCsvRows rows
CsvTables == {[error |-> FALSE, rows |-> SubSeq(CsvRows, 1, n)] : n \in 0..MaxCsvRows}

\* ... or an exception (no file, no such column)
CsvOutcomes == CsvTables \cup {[error |-> TRUE, rows |-> <<>>]}

load_questions(csv) == IF csv.error THEN FallbackStandardQuestions ELSE csv.rows

FallbackCvQuestions ==
    << "Based on your CV, what relevant experience would help you succeed in this venture?",
       "How do your past achievements prepare you for the challenges of this startup?" >>

\* str.strip() on one line of the reply
Strip(line) ==
    CASE line = "  " -> ""
      [] line = " Why you? " -> "Why you?"
      [] OTHER -> line

\* What model.generate_content gives: an exception, a response object without
\* a text attribute, or a text (here already cut into its lines at "\n").
GenReplies ==
    { [kind |-> "error", lines |-> <<>>],
      [kind |-> "notext", lines |-> <<>>],
      [kind |-> "text", lines |-> <<"">>],
      [kind |-> "text", lines |-> <<"What did you build?">>],
      [kind |-> "text", lines |-> <<"What did you build?", "  ", " Why you? ", "Why now?">>] }

\* The replies the lifecycle specifications draw from: they give 2 (fallback),
\* 0 and 1 CV questions
CvReplyInputs ==
    { [kind |-> "error", lines |-> <<>>],
      [kind |-> "text", lines |-> <<"">>],
      [kind |-> "text", lines |-> <<"What did you build?">>] }

\* A faulty generator that gives no question when the collaborator fails
GenerateCvQuestionsNoFallback(reply) ==
    IF reply.kind = "text"
    THEN LET questions == SelectSeq([i \in 1..Len(reply.lines) |-> Strip(reply.lines[i])],
                                    LAMBDA q : q /= "")
         IN  SubSeq(questions, 1, IF Len(questions) < MaxCvQuestions
                                  THEN Len(questions) ELSE MaxCvQuestions)
    ELSE <<>>

_generate_cv_questions(reply) ==
    IF reply.kind = "text"
    THEN LET questions == SelectSeq([i \in 1..Len(reply.lines) |-> Strip(reply.lines[i])],
                                    LAMBDA q : q /= "")
         IN  SubSeq(questions, 1, IF Len(questions) < MaxCvQuestions
                                  THEN Len(questions) ELSE MaxCvQuestions)
    ELSE FallbackCvQuestions

\* A faulty process_cv that puts the standard questions first
StandardFirstQuestionList(cv_questions, standard) ==
    [i \in 1..Len(standard) |->
        [text |-> standard[i].text, type |-> "standard",
         expected_response |-> standard[i].expected_response]]
    \o
    [i \in 1..Len(cv_questions) |->
        [text |-> cv_questions[i], type |-> "cv_based",
         expected_response |-> "Detailed response connecting experience to startup"]]

\* The questions list process_cv builds
CvQuestionList(cv_questions, standard) ==
    [i \in 1..Len(cv_questions) |->
        [text |-> cv_questions[i], type |-> "cv_based",
         expected_response |-> "Detailed response connecting experience to startup"]]
    \o
    [i \in 1..Len(standard) |->
        [text |-> standard[i].text, type |-> "standard",
         expected_response |-> standard[i].expected_response]]

(***************************************************************************)
(* Inputs of the handlers and outcomes of the collaborators.               *)
(***************************************************************************)
\* Form field text: absent, empty, or an answer
TextInputs == {None, Some(<<>>), Some(<<"Good", " ", "growth">>)}

\* Uploaded files, with the extension os.path.splitext(filename)[1].lower() gives
DocumentFiles == {[filename |-> "resume.pdf", ext |-> ".pdf"],
                  [filename |-> "resume.exe", ext |-> ".exe"]}
AudioFiles == {[filename |-> "answer.wav", ext |-> ".wav"],
               [filename |-> "answer.txt", ext |-> ".txt"]}
AudioInputs == {None} \cup {Some(f) : f \in AudioFiles}

\* extract_text_from_cv: None on an exception, else the text (possibly empty)
CvTexts == {None, Some(<<>>), Some(<<"Founder", " ", "CV">>)}

\* transcribe_audio_file: an HTTPException(500), or the transcript
Transcripts == { [error |-> TRUE, text |-> <<>>],
                 [error |-> FALSE, text |-> <<>>],
                 [error |-> FALSE, text |-> <<"Good", " ", "growth">>] }

\* The summary call of analyze_responses: an exception, or the summary text
\* with the score the pattern scan of lines 110-123 finds in it (None if none)
SummaryReplies == { [error |-> TRUE, text |-> "", score |-> None],
                    [error |-> FALSE, text |-> "Overall score: 7/10", score |-> Some(7)] }

\* The most questions a session can hold
MaxQuestions == MaxCvQuestions + MaxCsvRows

\* Question ids a client may send: the id of any position of any session, and
\* one string that is no question id
QuestionIds(ids) ==
    {QuestionId(s, i) : s \in ids, i \in 0..MaxQuestions} \cup {<<"x">>}

QuestionIdInputs == QuestionIds(SessionIds)

\* The positions whose per-question evaluation call fails in one analysis:
\* any of them
FailSets == SUBSET (1..MaxQuestions)

\* Whether the write of metadata.json succeeds (open or json.dump may raise)
WriteOutcomes == {TRUE, FALSE}

\* max_age_hours of a sweep: none, the 24 cleanup_task passes, and one hour more
MaxAgeInputs == {0, CleanupMaxAgeHours, CleanupMaxAgeHours + 1}

(***************************************************************************)
(* State.                                                                  *)
(***************************************************************************)
VARIABLES
    standard_questions,  \* InterviewService.standard_questions
    sessions,            \* InterviewService.sessions: session id -> session dict
    detached,            \* session dicts deleted from sessions that a suspended
                         \* handler still holds a reference to
    disk,                \* session id -> its metadata.json: the contents, and the
                         \* time of the last write (st_mtime)
    calls,               \* the bag of suspended handler coroutines
    created,             \* number of uuids handed out
    now,                 \* time.time()
    last,                \* what the last step did and what it returned
    acceptedIds          \* history: session id -> the question ids of the responses
                         \* process_response has appended, in order

vars == <<standard_questions, sessions, detached, disk, calls, created, now, last, acceptedIds>>

\* No handler is suspended
Quiet == calls = EmptyBag
\* The event loop can take one more suspended handler
CanSuspend == BagCardinality(calls) < MaxInFlight
Suspend(call) == calls (+) SetToBag({call})
Resumed(call) == calls (-) SetToBag({call})

\* validate_file_extension
validate_document_file(file) == file.ext \in {".pdf", ".docx", ".doc", ".txt"}
validate_audio_file(file) == file.ext \in {".wav", ".mp3", ".ogg", ".m4a"}

NewSession(t) ==
    [created_at |-> t, status |-> "created", questions |-> <<>>, responses |-> <<>>,
     current_index |-> 0, cv_path |-> None, feedback |-> None]

\* The dict _save_session_metadata serialises
Metadata(session_id, session) ==
    [session_id |-> session_id,
     created_at |-> session.created_at,
     status |-> session.status,
     current_index |-> session.current_index,
     cv_path |-> session.cv_path,
     questions |-> [i \in 1..Len(session.questions) |->
                      [text |-> session.questions[i].text, type |-> session.questions[i].type]],
     responses |-> [i \in 1..Len(session.responses) |->
                      [question_index |-> i - 1, text |-> session.responses[i].text]]]

\* open(..., "w") and json.dump: the file holds the dict and is stamped with
\* the time of the write
Written(content) == content @@ [st_mtime |-> now]

\* _save_session_metadata(session_id) against the dict `dict`: the new disk.
\* Nothing is written for an id that is not in the dict, or when the write fails.
SavedDisk(dict, session_id, wok) ==
    IF session_id \in DOMAIN dict /\ wok
    THEN (session_id :> Written(Metadata(session_id, dict[session_id]))) @@ disk
    ELSE disk

\* Whether _save_session_metadata(session_id) raises
SaveRaises(dict, session_id, wok) == session_id \in DOMAIN dict /\ ~wok

Reply(op, sid, code, value) ==
    [op |-> op, sid |-> sid, arg |-> None, code |-> code, value |-> value]

\* The reply to submit_response, with the question id the request carried
SubmitReply(sid, question_id, code, value) ==
    [Reply("process_response", sid, code, value) EXCEPT !.arg = Some(question_id)]

Init ==
    /\ standard_questions \in {load_questions(csv) : csv \in CsvTables}
    /\ sessions = <<>>
    /\ detached = <<>>
    /\ disk = <<>>
    /\ calls = EmptyBag
    /\ created = 0
    /\ now = 0
    /\ last = Reply("init", None, "ok", None)
    /\ acceptedIds = <<>>

(***************************************************************************)
(* create_session, get_session_status                                      *)
(***************************************************************************)
CreateSession(wok) ==
    /\ created < MaxSessions
    /\ LET session_id == Uuid(created + 1)
           dict == (session_id :> NewSession(now)) @@ sessions
       IN  /\ sessions' = dict
           /\ disk' = SavedDisk(dict, session_id, wok)
           /\ last' = IF SaveRaises(dict, session_id, wok)
                      THEN Reply("create_session", session_id, "WriteError", None)
                      ELSE Reply("create_session", session_id, "ok", session_id)
    /\ created' = created + 1
    /\ acceptedIds' = (Uuid(created + 1) :> <<>>) @@ acceptedIds
    /\ UNCHANGED <<standard_questions, detached, calls, now>>

SessionStatusView(session_id, session) ==
    [session_id |-> session_id, status |-> session.status,
     current_question_index |-> session.current_index,
     total_questions |-> Len(session.questions),
     created_at |-> session.created_at, cv_path |-> session.cv_path]

\* A faulty get_session_status that answers for an unknown id with the view of
\* a new session
GetSessionStatusLenient(session_id) ==
    /\ last' = Reply("get_session_status", session_id, "ok",
                     SessionStatusView(session_id,
                                       IF session_id \in DOMAIN sessions
                                       THEN sessions[session_id] ELSE NewSession(now)))
    /\ UNCHANGED <<standard_questions, sessions, detached, disk, calls, created, now, acceptedIds>>

GetSessionStatus(session_id) ==
    /\ last' = IF session_id \notin DOMAIN sessions
               THEN Reply("get_session_status", session_id, "NotFound", None)
               ELSE Reply("get_session_status", session_id, "ok",
                          SessionStatusView(session_id, sessions[session_id]))
    /\ UNCHANGED <<standard_questions, sessions, detached, disk, calls, created, now, acceptedIds>>

(***************************************************************************)
(* The session dict a handler holds a reference to.  A handler takes       *)
(* session = self.sessions[session_id] before its await; the sweep may     *)
(* delete the key while the handler is suspended, and the handler then     *)
(* goes on with the dict it holds.                                         *)
(***************************************************************************)
Obj(session_id) ==
    IF session_id \in DOMAIN sessions THEN sessions[session_id] ELSE detached[session_id]

Restrict(f, S) == [k \in S |-> f[k]]

Referenced(cs) == {call.sid : call \in BagToSet(cs)}

\* A faulty store in which the sessions share one list of questions
SessionsWithSharedQuestions(session_id, session) ==
    IF session_id \in DOMAIN sessions
    THEN [s \in DOMAIN sessions |->
            IF s = session_id THEN session
            ELSE [sessions[s] EXCEPT !.questions = session.questions]]
    ELSE sessions

\* A faulty store into which a handler puts the dict it holds back
SessionsWithRevived(session_id, session) == (session_id :> session) @@ sessions

\* self.sessions after a handler has changed the dict of session_id to `session`
SessionsWith(session_id, session) ==
    IF session_id \in DOMAIN sessions
    THEN [sessions EXCEPT ![session_id] = session]
    ELSE sessions

\* The unreachable-from-the-store dicts after that change, with the suspended
\* handlers cs: a dict no handler refers to is garbage
DetachedWith(session_id, session, cs) ==
    LET d == IF session_id \in DOMAIN detached
             THEN [detached EXCEPT ![session_id] = session]
             ELSE detached
    IN  Restrict(d, DOMAIN d \cap Referenced(cs))

(***************************************************************************)
(* upload_cv / process_cv                                                  *)
(***************************************************************************)
\* os.path.join(session["session_dir"], f"cv_{file.filename}")
CvPath(session_id, file) == [dir |-> session_id, name |-> <<"cv", "_", file.filename>>]

\* Lines 143-153: the session after the CV questions have been generated
AttachQuestions(session, cv_path, cv_questions) ==
    [session EXCEPT !.cv_path = Some(cv_path),
                    !.questions = CvQuestionList(cv_questions, standard_questions),
                    !.status = "ready"]

\* main.py 72-79 and interview.py 121-131: up to `await file.read()`
ProcessCvBegin(session_id, file) ==
    /\ IF ~validate_document_file(file)
       THEN /\ last' = Reply("process_cv", session_id, "InvalidFormat", None)
            /\ UNCHANGED calls
       ELSE IF session_id \notin DOMAIN sessions
       THEN /\ last' = Reply("process_cv", session_id, "NotFound", None)
            /\ UNCHANGED calls
       ELSE /\ CanSuspend
            /\ calls' = Suspend([op |-> "process_cv", sid |-> session_id, file |-> file])
            /\ last' = Reply("process_cv", session_id, "suspended", None)
    /\ UNCHANGED <<standard_questions, sessions, detached, disk, created, now, acceptedIds>>

\* interview.py 132-156: from the await to the return
ProcessCvResume(call, cv_text, reply, wok) ==
    /\ BagIn(call, calls)
    /\ call.op = "process_cv"
    /\ LET session_id == call.sid
           cv_path == CvPath(session_id, call.file)
           session == AttachQuestions(Obj(session_id), cv_path,
                                      _generate_cv_questions(reply))
           cs == Resumed(call)
       IN  /\ calls' = cs
           /\ IF ~Truthy(cv_text)
              THEN /\ last' = Reply("process_cv", session_id, "NoCvText", None)
                   /\ detached' = Restrict(detached, DOMAIN detached \cap Referenced(cs))
                   /\ UNCHANGED <<sessions, disk>>
              ELSE /\ sessions' = SessionsWith(session_id, session)
                   /\ detached' = DetachedWith(session_id, session, cs)
                   /\ disk' = SavedDisk(sessions', session_id, wok)
                   /\ last' = IF SaveRaises(sessions', session_id, wok)
                              THEN Reply("process_cv", session_id, "WriteError", None)
                              ELSE Reply("process_cv", session_id, "ok", Some(cv_path))
    /\ UNCHANGED <<standard_questions, created, now, acceptedIds>>

(***************************************************************************)
(* get_next_question                                                       *)
(***************************************************************************)
QuestionView(session_id, session) ==
    LET current_q == session.questions[session.current_index + 1]
    IN  [question_id |-> QuestionId(session_id, session.current_index),
         text |-> current_q.text, type |-> current_q.type,
         expected_response |-> current_q.expected_response]

\* A faulty get_next_question that also moves the cursor on
StartedSessionSkipping(session) ==
    [session EXCEPT !.status = "in_progress", !.current_index = @ + 1]

\* A faulty get_next_question that hands the first question out without
\* starting the interview
StartedSessionNot(session) == session

\* Lines 204-207: the first question handed out starts the interview
StartedSession(session) ==
    IF session.status = "ready" THEN [session EXCEPT !.status = "in_progress"] ELSE session

\* A faulty status check that also serves a completed session
ServableOrCompleted(session) == session.status \in {"ready", "in_progress", "completed"}

\* Line 196: the statuses in which a question is handed out
Servable(session) == session.status \in {"ready", "in_progress"}

GetNextQuestion(session_id, wok) ==
    /\ IF session_id \notin DOMAIN sessions
       THEN /\ last' = Reply("get_next_question", session_id, "NotFound", None)
            /\ UNCHANGED <<sessions, disk>>
       ELSE LET session == sessions[session_id]
            IN  IF ~Servable(session)
                THEN /\ last' = Reply("get_next_question", session_id, "InvalidState", None)
                     /\ UNCHANGED <<sessions, disk>>
                ELSE IF session.current_index >= Len(session.questions)
                THEN /\ last' = Reply("get_next_question", session_id, "ok", None)
                     /\ UNCHANGED <<sessions, disk>>
                ELSE /\ sessions' = [sessions EXCEPT ![session_id] = StartedSession(session)]
                     /\ IF session.status = "ready"
                        THEN /\ disk' = SavedDisk(sessions', session_id, wok)
                             /\ last' = IF SaveRaises(sessions', session_id, wok)
                                        THEN Reply("get_next_question", session_id,
                                                   "WriteError", None)
                                        ELSE Reply("get_next_question", session_id, "ok",
                                                   Some(QuestionView(session_id, session)))
                        ELSE /\ disk' = disk
                             /\ last' = Reply("get_next_question", session_id, "ok",
                                              Some(QuestionView(session_id, session)))
    /\ UNCHANGED <<standard_questions, detached, calls, created, now, acceptedIds>>

(***************************************************************************)
(* submit_response / process_response                                      *)
(***************************************************************************)
\* os.path.join(session["session_dir"], f"response_{session['current_index']}.wav")
AudioPath(session_id, index) ==
    [dir |-> session_id, name |-> <<"response", "_">> \o Decimal(index) \o <<".wav">>]

\* A faulty process_response that never completes the interview
AcceptResponseNeverCompleting(session, text, audio_path) ==
    LET response == [text |-> text, audio_path |-> audio_path,
                     sentiment |-> analyze_sentiment(text)]
    IN  [session EXCEPT !.responses = Append(session.responses, response),
                        !.current_index = @ + 1]

\* A faulty process_response that completes the interview one response late
AcceptResponseLate(session, text, audio_path) ==
    LET response == [text |-> text, audio_path |-> audio_path,
                     sentiment |-> analyze_sentiment(text)]
        index == session.current_index + 1
    IN  [session EXCEPT !.responses = Append(session.responses, response),
                        !.current_index = index,
                        !.status = IF index > Len(session.questions)
                                   THEN "completed" ELSE session.status]

\* Lines 256-275: the response is appended, the cursor moves on, and the
\* interview is completed when the cursor has reached the end
AcceptResponse(session, text, audio_path) ==
    LET response == [text |-> text, audio_path |-> audio_path,
                     sentiment |-> analyze_sentiment(text)]
        index == session.current_index + 1
    IN  [session EXCEPT !.responses = Append(session.responses, response),
                        !.current_index = index,
                        !.status = IF index >= Len(session.questions)
                                   THEN "completed" ELSE session.status]

ResponseView(session_id, session, question_id) ==
    LET r == session.responses[Len(session.responses)]
    IN  [response_id |-> ResponseId(session_id, Len(session.responses) - 1),
         question_id |-> question_id, text |-> r.text, audio_path |-> r.audio_path,
         sentiment_score |-> Some(r.sentiment.score)]

\* A faulty id check that always expects the id of the first question
FirstQuestionId(session_id, session) == QuestionId(session_id, 0)

\* A faulty id check that expects the id of the question answered last
PreviousQuestionId(session_id, session) ==
    QuestionId(session_id, IF session.current_index = 0 THEN 0
                           ELSE session.current_index - 1)

\* Line 229: expected_id
ExpectedQuestionId(session_id, session) == QuestionId(session_id, session.current_index)

\* A faulty status check that also takes answers on a ready session
AnsweringOrReady(session) == session.status \in {"ready", "in_progress"}

\* Line 225: the status in which an answer is taken
Answering(session) == session.status = "in_progress"

\* main.py 98-110 and interview.py 216-244: the checks, and then either the whole
\* handler (no audio file: nothing is awaited) or the part up to
\* `await audio_file.read()`
ProcessResponseBegin(session_id, question_id, audio_file, text, wok) ==
    /\ IF audio_file /= None /\ ~validate_audio_file(audio_file[1])
       THEN /\ last' = SubmitReply(session_id, question_id, "InvalidFormat", None)
            /\ UNCHANGED <<sessions, disk, calls, acceptedIds>>
       ELSE IF session_id \notin DOMAIN sessions
       THEN /\ last' = SubmitReply(session_id, question_id, "NotFound", None)
            /\ UNCHANGED <<sessions, disk, calls, acceptedIds>>
       ELSE LET session == sessions[session_id]
            IN  IF ~Answering(session)
                THEN /\ last' = SubmitReply(session_id, question_id, "InvalidState", None)
                     /\ UNCHANGED <<sessions, disk, calls, acceptedIds>>
                ELSE IF question_id /= ExpectedQuestionId(session_id, session)
                THEN /\ last' = SubmitReply(session_id, question_id, "QuestionMismatch", None)
                     /\ UNCHANGED <<sessions, disk, calls, acceptedIds>>
                ELSE IF audio_file /= None
                THEN /\ CanSuspend
                     /\ calls' = Suspend([op |-> "process_response", sid |-> session_id,
                                          question_id |-> question_id, text |-> text,
                                          index |-> session.current_index])
                     /\ last' = SubmitReply(session_id, question_id, "suspended", None)
                     /\ UNCHANGED <<sessions, disk, acceptedIds>>
                ELSE IF ~Truthy(text)
                THEN /\ last' = SubmitReply(session_id, question_id, "EmptyResponse", None)
                     /\ UNCHANGED <<sessions, disk, calls, acceptedIds>>
                ELSE LET answered == AcceptResponse(session, text[1], None)
                     IN  /\ sessions' = [sessions EXCEPT ![session_id] = answered]
                         /\ disk' = SavedDisk(sessions', session_id, wok)
                         /\ last' = IF SaveRaises(sessions', session_id, wok)
                                    THEN SubmitReply(session_id, question_id,
                                               "WriteError", None)
                                    ELSE SubmitReply(session_id, question_id, "ok",
                                               Some(ResponseView(session_id, answered,
                                                                 question_id)))
                         /\ acceptedIds' = [acceptedIds EXCEPT
                                               ![session_id] = Append(@, question_id)]
                         /\ UNCHANGED calls
    /\ UNCHANGED <<standard_questions, detached, created, now>>

\* interview.py 245-286: from the await to the return
ProcessResponseResume(call, transcript, wok) ==
    /\ BagIn(call, calls)
    /\ call.op = "process_response"
    /\ LET session_id == call.sid
           audio_path == Some(AudioPath(session_id, call.index))
           transcribed == ~Truthy(call.text)
           text == IF transcribed THEN Some(transcript.text) ELSE call.text
           cs == Resumed(call)
       IN  /\ calls' = cs
           /\ IF transcribed /\ transcript.error
              THEN /\ last' = SubmitReply(session_id, call.question_id, "AudioError", None)
                   /\ detached' = Restrict(detached, DOMAIN detached \cap Referenced(cs))
                   /\ UNCHANGED <<sessions, disk, acceptedIds>>
              ELSE IF ~Truthy(text)
              THEN /\ last' = SubmitReply(session_id, call.question_id, "EmptyResponse", None)
                   /\ detached' = Restrict(detached, DOMAIN detached \cap Referenced(cs))
                   /\ UNCHANGED <<sessions, disk, acceptedIds>>
              ELSE LET answered == AcceptResponse(Obj(session_id), text[1], audio_path)
                   IN  /\ sessions' = SessionsWith(session_id, answered)
                       /\ detached' = DetachedWith(session_id, answered, cs)
                       /\ disk' = SavedDisk(sessions', session_id, wok)
                       /\ acceptedIds' = [acceptedIds EXCEPT
                                             ![session_id] = Append(@, call.question_id)]
                       /\ last' = IF SaveRaises(sessions', session_id, wok)
                                  THEN SubmitReply(session_id, call.question_id,
                                             "WriteError", None)
                                  ELSE SubmitReply(session_id, call.question_id, "ok",
                                             Some(ResponseView(session_id, answered,
                                                               call.question_id)))
    /\ UNCHANGED <<standard_questions, created, now>>

(***************************************************************************)
(* analysis.py: analyze_single_response and analyze_responses              *)
(***************************************************************************)
AnalysisErrorPlaceholder ==
    [kind |-> "placeholder", text |-> "Analysis error: Could not process this response."]

\* The text the collaborator returns for one prompt: it is some function of
\* the question, the expected answer and the actual answer in the prompt
Evaluation(question, actual, expected) ==
    [kind |-> "evaluation", question |-> question, actual |-> actual, expected |-> expected]

\* analyze_single_response, with `fails` telling whether generate_content raises
analyze_single_response(question, actual, expected, fails) ==
    IF fails THEN AnalysisErrorPlaceholder ELSE Evaluation(question, actual, expected)

Min(a, b) == IF a < b THEN a ELSE b

\* Number of (question, response, expected) triples zip() yields
Zipped(responses, expected, questions) ==
    Min(Len(questions), Min(Len(responses), Len(expected)))

\* An order in which n tasks can complete: a permutation of 1..n
IsOrder(p, n) ==
    /\ DOMAIN p = 1..n
    /\ \A i \in 1..n : p[i] \in 1..n
    /\ \A i, j \in 1..n : p[i] = p[j] => i = j

Orders(n) == {p \in [1..n -> 1..n] : IsOrder(p, n)}

\* The order in which the tasks are created.  It is the order in which they
\* complete when no task suspends: analyze_single_response awaits nothing.
InOrder(n) == [i \in 1..n |-> i]

\* The evaluation calls as they complete: `order` is the order of completion,
\* `failing` are the positions whose call raises
Completions(responses, expected, questions, failing, order) ==
    [k \in 1..Len(order) |->
        LET i == order[k]
        IN  [task |-> i,
             result |-> analyze_single_response(questions[i], responses[i], expected[i],
                                                i \in failing)]]

\* A faulty gather that hands the results back in the order of completion
GatherByArrival(completions) ==
    [k \in 1..Len(completions) |-> completions[k].result]

\* asyncio.gather(*tasks): the result of each task, in the order of the tasks
gather(completions) ==
    [i \in 1..Len(completions) |->
        (CHOOSE c \in {completions[k] : k \in 1..Len(completions)} : c.task = i).result]

\* Lines 85-88: what the summary prompt is built from, an entry per feedback.
\* (The prompt keeps the first 4000 characters of it: all of it, for the short
\* texts of this model.)
combined_feedback(individual_feedback, questions, responses) ==
    [i \in 1..Len(individual_feedback) |->
        [question |-> questions[i], response |-> responses[i],
         feedback |-> individual_feedback[i]]]

CouldNotGenerateSummary ==
    [kind |-> "fallback", text |-> "Could not generate interview summary.", prompt |-> <<>>]

\* The summary text the collaborator returns: it is some function of the prompt
SummaryText(summary, prompt) ==
    IF summary.error THEN CouldNotGenerateSummary
    ELSE [kind |-> "summary", text |-> summary.text, prompt |-> prompt]

\* A faulty analyze_responses in which one failed evaluation spoils the batch
AnalyzeResponsesAllOrNothing(responses, expected, questions, failing, order, summary) ==
    LET n == Zipped(responses, expected, questions)
        individual_feedback ==
            [i \in 1..n |-> analyze_single_response(questions[i], responses[i],
                                                    expected[i], failing /= {})]
    IN  [detailed_feedback |-> individual_feedback,
         summary |-> SummaryText(summary, combined_feedback(individual_feedback,
                                                            questions, responses)),
         score |-> IF summary.error THEN None ELSE summary.score]

\* analyze_responses: `failing` are the positions whose evaluation call raises,
\* `order` is the order in which the calls complete, `summary` is the outcome
\* of the summary call.  detailed_feedback is the dict question_1 ..
\* question_n, kept as the sequence of its values.
analyze_responses(responses, expected, questions, failing, order, summary) ==
    LET individual_feedback ==
            gather(Completions(responses, expected, questions, failing, order))
    IN  [detailed_feedback |-> individual_feedback,
         summary |-> SummaryText(summary, combined_feedback(individual_feedback,
                                                            questions, responses)),
         score |-> IF summary.error THEN None ELSE summary.score]

(***************************************************************************)
(* generate_feedback                                                       *)
(***************************************************************************)
NoDetailedFeedback == [kind |-> "default", text |-> "No detailed feedback available"]

\* The detailed_feedback dict lines 320-326 and 365-372 build: one entry per
\* question that has a response, taken from the stored dict by its key
DetailedView(n_questions, n_responses, detailed_feedback) ==
    [i \in 1..Min(n_questions, n_responses) |->
        IF i <= Len(detailed_feedback) THEN detailed_feedback[i] ELSE NoDetailedFeedback]

\* A faulty generate_feedback that keeps the feedback a session already has
AnalyzedOnce(session, feedback_result) ==
    IF session.feedback /= None
    THEN [session EXCEPT !.status = "analyzed"]
    ELSE [session EXCEPT !.feedback = Some(feedback_result), !.status = "analyzed"]

\* Lines 314-316
Analyzed(session, feedback_result) ==
    [session EXCEPT !.feedback = Some(feedback_result), !.status = "analyzed"]

FeedbackReturned(n_questions, n_responses, feedback_result) ==
    [summary |-> feedback_result.summary,
     detailed_feedback |-> DetailedView(n_questions, n_responses,
                                        feedback_result.detailed_feedback),
     overall_score |-> feedback_result.score]

TextsOf(seq) == [i \in 1..Len(seq) |-> seq[i].text]
ExpectedOf(seq) == [i \in 1..Len(seq) |-> seq[i].expected_response]

\* interview.py 288-312 and analysis.py 69-76: up to `await asyncio.gather(*tasks)`.
\* With no task, gather() returns a future that is already done and the await
\* does not suspend: the handler runs to its end in this step.
GenerateFeedbackBegin(session_id, summary, wok) ==
    /\ IF session_id \notin DOMAIN sessions
       THEN /\ last' = Reply("generate_feedback", session_id, "NotFound", None)
            /\ UNCHANGED <<sessions, disk, calls>>
       ELSE LET session == sessions[session_id]
                questions == TextsOf(session.questions)
                expected_responses == ExpectedOf(session.questions)
                actual_responses == TextsOf(session.responses)
            IN  IF Len(session.responses) < Len(session.questions)
                THEN /\ last' = Reply("generate_feedback", session_id, "Incomplete", None)
                     /\ UNCHANGED <<sessions, disk, calls>>
                ELSE IF Zipped(actual_responses, expected_responses, questions) > 0
                THEN /\ CanSuspend
                     /\ calls' = Suspend([op |-> "generate_feedback", sid |-> session_id,
                                          questions |-> questions,
                                          expected |-> expected_responses,
                                          actual |-> actual_responses])
                     /\ last' = Reply("generate_feedback", session_id, "suspended", None)
                     /\ UNCHANGED <<sessions, disk>>
                ELSE LET feedback_result ==
                             analyze_responses(actual_responses, expected_responses,
                                               questions, {}, <<>>, summary)
                     IN  /\ sessions' = [sessions EXCEPT ![session_id] =
                                            Analyzed(session, feedback_result)]
                         /\ disk' = SavedDisk(sessions', session_id, wok)
                         /\ last' = IF SaveRaises(sessions', session_id, wok)
                                    THEN Reply("generate_feedback", session_id,
                                               "WriteError", None)
                                    ELSE Reply("generate_feedback", session_id, "ok",
                                               Some(FeedbackReturned(Len(questions),
                                                        Len(actual_responses),
                                                        feedback_result)))
                         /\ UNCHANGED calls
    /\ UNCHANGED <<standard_questions, detached, created, now, acceptedIds>>

\* analysis.py 76-133 and interview.py 313-332: from the await to the return
GenerateFeedbackResume(call, failing, order, summary, wok) ==
    /\ BagIn(call, calls)
    /\ call.op = "generate_feedback"
    /\ failing \subseteq 1..Zipped(call.actual, call.expected, call.questions)
    /\ IsOrder(order, Zipped(call.actual, call.expected, call.questions))
    /\ LET session_id == call.sid
           feedback_result == analyze_responses(call.actual, call.expected,
                                                call.questions, failing, order, summary)
           session == Analyzed(Obj(session_id), feedback_result)
           cs == Resumed(call)
       IN  /\ calls' = cs
           /\ sessions' = SessionsWith(session_id, session)
           /\ detached' = DetachedWith(session_id, session, cs)
           /\ disk' = SavedDisk(sessions', session_id, wok)
           /\ last' = IF SaveRaises(sessions', session_id, wok)
                      THEN Reply("generate_feedback", session_id, "WriteError", None)
                      ELSE Reply("generate_feedback", session_id, "ok",
                                 Some(FeedbackReturned(Len(call.questions), Len(call.actual),
                                                       feedback_result)))
    /\ UNCHANGED <<standard_questions, created, now, acceptedIds>>

(***************************************************************************)
(* get_interview_result                                                    *)
(***************************************************************************)
InterviewResultView(session_id, session) ==
    [session_id |-> session_id,
     questions |-> [i \in 1..Len(session.questions) |->
                      [question_id |-> QuestionId(session_id, i - 1),
                       text |-> session.questions[i].text,
                       type |-> session.questions[i].type,
                       expected_response |-> session.questions[i].expected_response]],
     responses |-> [i \in 1..Len(session.responses) |->
                      [response_id |-> ResponseId(session_id, i - 1),
                       question_id |-> QuestionId(session_id, i - 1),
                       text |-> session.responses[i].text,
                       audio_path |-> session.responses[i].audio_path,
                       sentiment_score |-> Some(session.responses[i].sentiment.score)]],
     feedback |-> IF session.feedback = None THEN None
                  ELSE Some(FeedbackReturned(Len(session.questions), Len(session.responses),
                                             session.feedback[1]))]

GetInterviewResult(session_id) ==
    /\ last' = IF session_id \notin DOMAIN sessions
               THEN Reply("get_interview_result", session_id, "NotFound", None)
               ELSE Reply("get_interview_result", session_id, "ok",
                          Some(InterviewResultView(session_id, sessions[session_id])))
    /\ UNCHANGED <<standard_questions, sessions, detached, disk, calls, created, now, acceptedIds>>

(***************************************************************************)
(* cleanup_task / cleanup_old_sessions, and the clock                      *)
(***************************************************************************)
\* A faulty sweep that also removes a session whose age is exactly the limit
SessionsToRemoveAtLimit(max_age_hours) ==
    {session_id \in DOMAIN sessions :
        now - sessions[session_id].created_at >= max_age_hours * SecondsPerHour}

sessions_to_remove(max_age_hours) ==
    {session_id \in DOMAIN sessions :
        now - sessions[session_id].created_at > max_age_hours * SecondsPerHour}

CleanupOldSessions(max_age_hours) ==
    LET gone == sessions_to_remove(max_age_hours)
    IN  /\ sessions' = Restrict(sessions, DOMAIN sessions \ gone)
        /\ detached' = Restrict(sessions, gone \cap Referenced(calls)) @@ detached
        /\ last' = Reply("cleanup_old_sessions", None, "ok", Some(Cardinality(gone)))
        /\ UNCHANGED <<standard_questions, disk, calls, created, now, acceptedIds>>

Tick ==
    /\ now < MaxTime * TickSeconds
    /\ now' = now + TickSeconds
    /\ last' = Reply("tick", None, "ok", None)
    /\ UNCHANGED <<standard_questions, sessions, detached, disk, calls, created, acceptedIds>>

(***************************************************************************)
(* The next-state relation.  Start(E) are the steps that begin a handler   *)
(* (and finish it, when it never suspends), the sweep and the clock;       *)
(* Finish(E) are the steps that resume a suspended handler.  The           *)
(* environment E gives the sets the inputs and the collaborators' outcomes *)
(* are drawn from, and whether handlers run one at a time.                 *)
(***************************************************************************)
\* With E.seq a handler starts only when no handler is suspended
MayStart(E) == E.seq => Quiet

\* The orders in which E lets n evaluation calls complete
CompletionOrders(E, n) == IF E.any_order THEN Orders(n) ELSE {InOrder(n)}

\* The session ids the clients of E hold and send
Clients(E) == {Uuid(n) : n \in 1..E.clients}

Start(E) ==
    \/ \E wok \in E.W : MayStart(E) /\ created < E.clients /\ CreateSession(wok)
    \/ \E sid \in Clients(E) : MayStart(E) /\ GetSessionStatus(sid)
    \/ \E sid \in Clients(E), file \in E.documents : MayStart(E) /\ ProcessCvBegin(sid, file)
    \/ \E sid \in Clients(E), wok \in E.W : MayStart(E) /\ GetNextQuestion(sid, wok)
    \/ \E sid \in Clients(E), qid \in QuestionIds(Clients(E)), audio_file \in E.audios,
          text \in E.texts, wok \in E.W :
          MayStart(E) /\ ProcessResponseBegin(sid, qid, audio_file, text, wok)
    \/ \E sid \in Clients(E), summary \in E.summaries, wok \in E.W :
          MayStart(E) /\ GenerateFeedbackBegin(sid, summary, wok)
    \/ \E sid \in Clients(E) : MayStart(E) /\ GetInterviewResult(sid)
    \/ \E max_age_hours \in MaxAgeInputs : MayStart(E) /\ CleanupOldSessions(max_age_hours)
    \/ MayStart(E) /\ Tick

Finish(E) ==
    \/ \E call \in BagToSet(calls), cv_text \in CvTexts, reply \in E.cv_replies, wok \in E.W :
          ProcessCvResume(call, cv_text, reply, wok)
    \/ \E call \in BagToSet(calls), transcript \in Transcripts, wok \in E.W :
          ProcessResponseResume(call, transcript, wok)
    \/ \E call \in {c \in BagToSet(calls) : c.op = "generate_feedback"},
          failing \in E.failing, summary \in E.summaries, wok \in E.W :
          \E order \in CompletionOrders(E, Zipped(call.actual, call.expected,
                                                    call.questions)) :
             GenerateFeedbackResume(call, failing, order, summary, wok)

\* Sequential histories: every handler runs from its first line to its return
\* with no other step in between.  Writes of metadata.json succeed, and the
\* evaluation calls complete in the order of their creation.
Sequential ==
    [seq |-> TRUE, any_order |-> FALSE, clients |-> 1, W |-> {TRUE},
     documents |-> DocumentFiles,
     audios |-> AudioInputs,
     texts |-> TextInputs, cv_replies |-> CvReplyInputs, summaries |-> SummaryReplies,
     failing |-> FailSets]

SeqNext == Start(Sequential) \/ Finish(Sequential)

SpecSeq == Init /\ [][SeqNext]_vars

\* The service as it runs: handlers interleave at their awaits, and the
\* evaluation calls of one gather complete in any order.  The clients upload
\* files of an allowed type, and the collaborator answers every evaluation and
\* summary prompt.
Live ==
    [Sequential EXCEPT
       !.seq = FALSE,
       !.any_order = TRUE,
       !.documents = {f \in DocumentFiles : validate_document_file(f)},
       !.audios = {None} \cup {Some(f) : f \in {g \in AudioFiles : validate_audio_file(g)}},
       !.summaries = {r \in SummaryReplies : ~r.error},
       !.failing = {{}}]

Next == Start(Live) \/ Finish(Live)

Spec == Init /\ [][Next]_vars

\* Sequential histories in which a write of metadata.json may fail, for a
\* client that uploads valid files and always sends the text of its answer.
Faulty ==
    [seq |-> TRUE, any_order |-> FALSE, clients |-> 1, W |-> WriteOutcomes,
     documents |-> {f \in DocumentFiles : validate_document_file(f)},
     audios |-> {None} \cup {Some(f) : f \in {g \in AudioFiles : validate_audio_file(g)}},
     texts |-> {t \in TextInputs : Truthy(t)},
     cv_replies |-> {r \in CvReplyInputs : r.kind = "text"},
     summaries |-> {r \in SummaryReplies : ~r.error}, failing |-> {{}}]

FaultyNext == Start(Faulty) \/ Finish(Faulty)

SpecFaulty == Init /\ [][FaultyNext]_vars

\* Sequential histories of as many sessions as there are ids, created at
\* different times, whose clients send valid requests and whose CVs yield no
\* CV question.
Sweeping ==
    [Sequential EXCEPT
       !.clients = MaxSessions,
       !.documents = {f \in DocumentFiles : validate_document_file(f)},
       !.audios = {None} \cup {Some(f) : f \in {g \in AudioFiles : validate_audio_file(g)}},
       !.texts = {t \in TextInputs : Truthy(t)},
       !.cv_replies = {r \in CvReplyInputs : _generate_cv_questions(r) = <<>>},
       !.summaries = {r \in SummaryReplies : ~r.error},
       !.failing = {{}}]

SweepNext == Start(Sweeping) \/ Finish(Sweeping)

SpecSweep == Init /\ [][SweepNext]_vars


\* Two sessions served at the same time: handlers on one session run while a
\* handler on the other is suspended at its await.
\* The clients answer with an audio file and the text of the answer.
Parallel ==
    [Sweeping EXCEPT
       !.seq = FALSE,
       !.audios = {Some(f) : f \in {g \in AudioFiles : validate_audio_file(g)}}]

ParNext == Start(Parallel) \/ Finish(Parallel)

SpecPar == Init /\ [][ParNext]_vars

(***************************************************************************)
(* StorageService.list_sessions over the sessions directory the session    *)
(* manager writes to                                                       *)
(***************************************************************************)
\* The directories under SESSIONS_DIR: create_session makes one for each
\* uuid it hands out, and nothing removes a directory
session_dirs == {Uuid(n) : n \in 1..created}

\* session id -> the file session.json of its directory.  Only
\* StorageService.save_session writes that file, and nothing calls it.
session_json == <<>>

\* max_age_hours of a listing: no filter, and the ages a sweep is run with
AgeFilters == {None} \cup {Some(h) : h \in MaxAgeInputs}

\* list_sessions(max_age_hours) over the directories `dirs` and the
\* session.json files `files`.  iterdir gives the directories in no
\* particular order, so the result is modelled as the set of the ids.
list_sessions(dirs, files, max_age_hours) ==
    {session_id \in dirs :
        ~ /\ max_age_hours /= None
          /\ session_id \in DOMAIN files
          /\ now - files[session_id].st_mtime > max_age_hours[1] * SecondsPerHour}

ListSessions(max_age_hours) ==
    /\ last' = [Reply("list_sessions", None, "ok",
                      Some(list_sessions(session_dirs, session_json, max_age_hours)))
                EXCEPT !.arg = max_age_hours]
    /\ UNCHANGED <<standard_questions, sessions, detached, disk, calls, created, now,
                   acceptedIds>>

ListingNext ==
    \/ Start(Sweeping)
    \/ Finish(Sweeping)
    \/ \E max_age_hours \in AgeFilters : ListSessions(max_age_hours)

SpecListing == Init /\ [][ListingNext]_vars

(***************************************************************************)
(* The interview during an outage of the generative-text collaborator:     *)
(* every generate_content call raises.  Each client follows the protocol:  *)
(* it creates its session, uploads a readable CV, asks for the question,   *)
(* answers the question at the cursor with a text (with or without an      *)
(* audio file), asks for the feedback when the interview is completed,     *)
(* and sends one request at a time.                                        *)
(***************************************************************************)
\* What generate_content gives during the outage
OutageReplies == {r \in CvReplyInputs : r.kind = "error"}
OutageSummaries == {r \in SummaryReplies : r.error}

\* The client of session_id is not waiting for a reply
ClientIdle(session_id) == session_id \notin Referenced(calls)

OutageCreate == CreateSession(TRUE)

OutageUpload(sid) ==
    /\ sid \in DOMAIN sessions
    /\ sessions[sid].status = "created"
    /\ \E file \in {f \in DocumentFiles : validate_document_file(f)} : ProcessCvBegin(sid, file)

\* The first get_next_question, which starts the interview
OutageStart(sid) ==
    /\ sid \in DOMAIN sessions
    /\ sessions[sid].status = "ready"
    /\ GetNextQuestion(sid, TRUE)

\* get_next_question again, for the question at the cursor
OutageQuestion(sid) ==
    /\ sid \in DOMAIN sessions
    /\ sessions[sid].status = "in_progress"
    /\ ClientIdle(sid)
    /\ GetNextQuestion(sid, TRUE)

OutageAnswer(sid) ==
    /\ sid \in DOMAIN sessions
    /\ sessions[sid].status = "in_progress"
    /\ ClientIdle(sid)
    /\ \E audio_file \in {None} \cup {Some(f) : f \in {g \in AudioFiles : validate_audio_file(g)}},
          text \in {t \in TextInputs : Truthy(t)} :
          ProcessResponseBegin(sid, ExpectedQuestionId(sid, sessions[sid]), audio_file,
                               text, TRUE)

OutageFeedback(sid) ==
    /\ sid \in DOMAIN sessions
    /\ sessions[sid].status = "completed"
    /\ ClientIdle(sid)
    /\ \E summary \in OutageSummaries : GenerateFeedbackBegin(sid, summary, TRUE)

\* The awaited read or gather is done and the handler goes on: the CV question
\* call, every evaluation call and the summary call raise
OutageResume ==
    \E call \in BagToSet(calls) :
        \/ \E cv_text \in {t \in CvTexts : Truthy(t)}, reply \in OutageReplies :
              ProcessCvResume(call, cv_text, reply, TRUE)
        \/ \E transcript \in Transcripts : ProcessResponseResume(call, transcript, TRUE)
        \/ \E summary \in OutageSummaries,
              order \in IF call.op = "generate_feedback"
                        THEN {InOrder(Zipped(call.actual, call.expected, call.questions))}
                        ELSE {} :
              GenerateFeedbackResume(call,
                                     1..Zipped(call.actual, call.expected, call.questions),
                                     order, summary, TRUE)

OutageNext ==
    \/ OutageCreate
    \/ \E sid \in SessionIds : OutageUpload(sid)
    \/ \E sid \in SessionIds : OutageStart(sid)
    \/ \E sid \in SessionIds : OutageQuestion(sid)
    \/ \E sid \in SessionIds : OutageAnswer(sid)
    \/ \E sid \in SessionIds : OutageFeedback(sid)
    \/ OutageResume

\* Every client sends its next request, and the event loop resumes a handler
\* whose awaited read or gather is done.
OutageFairness ==
    /\ WF_vars(OutageCreate)
    /\ WF_vars(OutageResume)
    /\ \A sid \in SessionIds :
          /\ WF_vars(OutageUpload(sid))
          /\ WF_vars(OutageStart(sid))
          /\ WF_vars(OutageAnswer(sid))
          /\ WF_vars(OutageFeedback(sid))

SpecOutage == Init /\ [][OutageNext]_vars /\ OutageFairness

(***************************************************************************)
(* analyze_sentiment on its own: a text is drawn, and the scorer is        *)
(* applied to it.                                                          *)
(***************************************************************************)
\* Words of the texts: three of the positive list or the negative list written
\* with capitals, one of each list in lower case, and one of neither list
SentimentWords == {"Good", "growth", "BAD", "No", "fail", "startup"}

RECURSIVE Join(_)
\* " ".join(words), as chunks
Join(words) ==
    IF Len(words) <= 1 THEN words ELSE <<Head(words), " ">> \o Join(Tail(words))

\* The empty text, texts of white space only, and the texts of 1..MaxWords words
SentimentTexts ==
    {Join(words) : words \in UNION {[1..n -> SentimentWords] : n \in 0..MaxWords}}
    \cup {<<" ">>, <<"\n", " ">>}

\* The service as Init leaves it, and a text to score
SentimentInit ==
    /\ standard_questions \in {load_questions(csv) : csv \in CsvTables}
    /\ sessions = <<>>
    /\ detached = <<>>
    /\ disk = <<>>
    /\ calls = EmptyBag
    /\ created = 0
    /\ now = 0
    /\ acceptedIds = <<>>
    /\ \E text \in SentimentTexts :
          last = [Reply("text", None, "ok", None) EXCEPT !.arg = Some(text)]

AnalyzeSentiment ==
    /\ last.op = "text"
    /\ last' = [Reply("analyze_sentiment", None, "ok", Some(analyze_sentiment(last.arg[1])))
                   EXCEPT !.arg = last.arg]
    /\ UNCHANGED <<standard_questions, sessions, detached, disk, calls, created, now,
                   acceptedIds>>

SentimentNext == AnalyzeSentiment

SpecSentiment == SentimentInit /\ [][SentimentNext]_vars

(***************************************************************************)
(* Properties of the interview session                                     *)
(***************************************************************************)
Range(f) == {f[i] : i \in DOMAIN f}

\* The order of the lifecycle
StatusOrder(status) ==
    CASE status = "created" -> 0
      [] status = "ready" -> 1
      [] status = "in_progress" -> 2
      [] status = "completed" -> 3
      [] status = "analyzed" -> 4

\* The sessions a step finds in the store and leaves in it
Kept == DOMAIN sessions \cap DOMAIN sessions'

\* The upload, if there is one, passes validate_audio_file
AllowedAudio(audio_file) == audio_file = None \/ validate_audio_file(audio_file[1])

\* C1: in every reachable state of every session, after any sequence of
\* operations, 0 <= current_index <= len(questions), len(responses) =
\* current_index and len(responses) <= len(questions).
C1_CursorWithinQuestions ==
    \A sid \in DOMAIN sessions :
        LET session == sessions[sid]
        IN  /\ 0 <= session.current_index
            /\ session.current_index <= Len(session.questions)
            /\ Len(session.responses) = session.current_index
            /\ Len(session.responses) <= Len(session.questions)

\* C2: no step moves the status of a session backward in the order created <
\* ready < in_progress < completed < analyzed, and no step changes the status
\* of an analyzed session.
C2_StatusNeverMovesBack ==
    [][\A sid \in Kept :
          /\ StatusOrder(sessions'[sid].status) >= StatusOrder(sessions[sid].status)
          /\ sessions[sid].status = "analyzed" => sessions'[sid].status = "analyzed"]_vars

\* C3: when a submit_response that was suspended at its await resumes after
\* another submit_response with the same question id has been accepted, it is
\* not accepted too: it appends no response and leaves the session as it is.
C3_OneSubmissionAccepted ==
    [][\A call \in BagToSet(calls) :
          (/\ call.op = "process_response"
           /\ CopiesIn(call, calls') < CopiesIn(call, calls)
           /\ call.question_id \in Range(acceptedIds[call.sid]))
          => /\ acceptedIds'[call.sid] = acceptedIds[call.sid]
             /\ sessions' = sessions]_vars

\* C4: once the status of a session is in_progress or later, no step changes
\* its list of questions.
C4_QuestionsFrozen ==
    [][\A sid \in Kept :
          StatusOrder(sessions[sid].status) >= StatusOrder("in_progress")
          => sessions'[sid].questions = sessions[sid].questions]_vars

\* C5 as stated: a submit_response on a known session whose question id
\* differs from the id derived from (session id, current_index) fails with
\* QuestionMismatch and leaves the session unchanged.  (The uploads are
\* restricted to allowed audio files.)
C5_MismatchAlwaysQuestionMismatch ==
    [][last'.op = "process_response" =>
       \A sid \in DOMAIN sessions, qid \in QuestionIdInputs,
          audio_file \in {a \in AudioInputs : AllowedAudio(a)}, text \in TextInputs :
          (/\ qid /= QuestionId(sid, sessions[sid].current_index)
           /\ ProcessResponseBegin(sid, qid, audio_file, text, TRUE))
          => last'.code = "QuestionMismatch" /\ sessions' = sessions]_vars

\* C5 amended: a submit_response on a known session whose question id differs
\* from the id derived from (session id, current_index) always fails and
\* leaves the session unchanged; it fails with QuestionMismatch when the
\* session is in_progress, with InvalidState when it is not, and with an
\* invalid-format error, before either check, when the uploaded audio file has
\* no allowed extension.
C5_MismatchRejected ==
    [][last'.op = "process_response" =>
       \A sid \in {s \in DOMAIN sessions : last'.sid = s} :
       \A qid \in {q \in QuestionIdInputs : last'.arg = Some(q)} :
       \A audio_file \in AudioInputs, text \in TextInputs :
          (/\ qid /= QuestionId(sid, sessions[sid].current_index)
           /\ ProcessResponseBegin(sid, qid, audio_file, text, TRUE))
          => /\ last'.code = IF ~AllowedAudio(audio_file) THEN "InvalidFormat"
                             ELSE IF sessions[sid].status /= "in_progress"
                             THEN "InvalidState"
                             ELSE "QuestionMismatch"
             /\ sessions' = sessions
             /\ acceptedIds' = acceptedIds
             /\ calls' = calls]_vars

\* A submit_response with a question id other than the expected one has just
\* been turned down with QuestionMismatch on a session in progress
C5_MismatchSeen ==
    /\ last.op = "process_response"
    /\ last.code = "QuestionMismatch"
    /\ last.sid \in DOMAIN sessions
    /\ sessions[last.sid].status = "in_progress"
    /\ last.arg /= Some(QuestionId(last.sid, sessions[last.sid].current_index))

\* C6: in a sequential history, a submit_response with a question id that has
\* been accepted on the session before is rejected and changes nothing, and
\* the question id of every accepted response is one not accepted before.
C6_RetryRejected ==
    [][/\ last'.op = "process_response" =>
          \A sid \in {s \in DOMAIN acceptedIds : last'.sid = s} :
          \A qid \in {q \in QuestionIdInputs : last'.arg = Some(q)} :
          \A audio_file \in AudioInputs, text \in TextInputs :
             (/\ qid \in Range(acceptedIds[sid])
              /\ ProcessResponseBegin(sid, qid, audio_file, text, TRUE))
             => /\ last'.code \in {"QuestionMismatch", "InvalidState",
                                   "InvalidFormat", "NotFound"}
                /\ sessions' = sessions
                /\ disk' = disk
                /\ calls' = calls
                /\ acceptedIds' = acceptedIds
       /\ \A sid \in DOMAIN acceptedIds :
             acceptedIds'[sid] /= acceptedIds[sid]
             => \E qid \in QuestionIdInputs \ Range(acceptedIds[sid]) :
                   acceptedIds'[sid] = Append(acceptedIds[sid], qid)]_vars

\* The retry of an accepted question id has just been turned down
C6_RetrySeen ==
    /\ last.op = "process_response"
    /\ last.code = "QuestionMismatch"
    /\ last.sid \in DOMAIN acceptedIds
    /\ last.arg[1] \in Range(acceptedIds[last.sid])

\* C7: when a get_next_question that returns a question directly follows a
\* get_next_question on the same session that returned one, it returns the
\* same question (id, text, type and expected response) and changes nothing.
C7_NextQuestionIdempotent ==
    [][(/\ last.op = "get_next_question" /\ last.code = "ok"
        /\ last'.op = "get_next_question" /\ last'.code = "ok"
        /\ last'.sid = last.sid)
       => /\ last'.value = last.value
          /\ sessions' = sessions
          /\ disk' = disk
          /\ acceptedIds' = acceptedIds]_vars

\* get_next_question has just returned the question at the cursor of a session
\* in progress, which is the state after the first call and after any repeat
C7_QuestionReturned ==
    /\ last.op = "get_next_question"
    /\ last.code = "ok"
    /\ last.value /= None
    /\ last.sid \in DOMAIN sessions
    /\ sessions[last.sid].status = "in_progress"
    /\ last.value = Some(QuestionView(last.sid, sessions[last.sid]))

\* C8: current_index never decreases, and a step changes it only by adding 1
\* in a submit_response that succeeds; every other step, a failed
\* submit_response included, leaves it unchanged.
C8_CursorMovesOnlyOnSuccess ==
    [][\A sid \in Kept :
          LET before == sessions[sid].current_index
              after == sessions'[sid].current_index
          IN  \/ after = before
              \/ /\ after = before + 1
                 /\ last'.op = "process_response"
                 /\ last'.code = "ok"]_vars

\* C9: in a sequential history, after the n-th accepted response of a session
\* with N > 0 questions the status is in_progress while n < N and completed
\* when n = N, and current_index = n = len(responses).
C9_CompletedAtLastResponse ==
    \A sid \in DOMAIN sessions :
        (last.op = "process_response" /\ last.code = "ok" /\ last.sid = sid)
        => LET session == sessions[sid]
               N == Len(session.questions)
               n == Len(acceptedIds[sid])
           IN  /\ N > 0
               /\ 1 <= n /\ n <= N
               /\ session.current_index = n
               /\ Len(session.responses) = n
               /\ session.status = IF n < N THEN "in_progress" ELSE "completed"

\* The last of the questions of the longest list has just been answered by text
C9_Drained ==
    /\ last.op = "process_response"
    /\ last.code = "ok"
    /\ last.sid \in DOMAIN sessions
    /\ LET session == sessions[last.sid]
       IN  /\ Len(session.questions) = MaxQuestions
           /\ session.current_index = MaxQuestions
           /\ session.status = "completed"
           /\ \A i \in 1..MaxQuestions : session.responses[i].audio_path = None

\* C10: get_next_question on a session that has answers and whose cursor has
\* reached the end of the questions returns None and no error.
C10_NoneAtTheEnd ==
    (/\ last.op = "get_next_question"
     /\ last.sid \in DOMAIN sessions
     /\ sessions[last.sid].responses /= <<>>
     /\ sessions[last.sid].current_index >= Len(sessions[last.sid].questions))
    => last.code = "ok" /\ last.value = None


\* C11: get_next_question on a session whose status is created, completed or
\* analyzed fails with InvalidState and changes nothing.
C11_NextQuestionNeedsReady ==
    [][last'.op = "get_next_question" =>
       \A sid \in DOMAIN sessions :
          (/\ sessions[sid].status \in {"created", "completed", "analyzed"}
           /\ GetNextQuestion(sid, TRUE))
          => /\ last'.code = "InvalidState"
             /\ sessions' = sessions
             /\ disk' = disk
             /\ acceptedIds' = acceptedIds]_vars

\* get_next_question has just been refused on a freshly created session
C11_RefusedOnCreated ==
    /\ last.op = "get_next_question"
    /\ last.code = "InvalidState"
    /\ last.sid \in DOMAIN sessions
    /\ sessions[last.sid] = NewSession(sessions[last.sid].created_at)

\* C12: a submit_response that reaches process_response on a session whose
\* status is not in_progress fails with InvalidState and changes nothing, also
\* when its question id is the one derived from the cursor.
C12_SubmitNeedsInProgress ==
    [][last'.op = "process_response" =>
       \A sid \in {s \in DOMAIN sessions : last'.sid = s} :
       \A qid \in {q \in QuestionIdInputs : last'.arg = Some(q)} :
       \A audio_file \in {a \in AudioInputs : AllowedAudio(a)}, text \in TextInputs :
          (/\ sessions[sid].status /= "in_progress"
           /\ ProcessResponseBegin(sid, qid, audio_file, text, TRUE))
          => /\ last'.code = "InvalidState"
             /\ sessions' = sessions
             /\ disk' = disk
             /\ calls' = calls
             /\ acceptedIds' = acceptedIds]_vars

\* A submit_response carrying the id of the question at the cursor has just
\* been refused on a ready session that has questions
C12_RefusedOnReady ==
    /\ last.op = "process_response"
    /\ last.code = "InvalidState"
    /\ last.sid \in DOMAIN sessions
    /\ sessions[last.sid].status = "ready"
    /\ sessions[last.sid].current_index < Len(sessions[last.sid].questions)
    /\ last.arg = Some(QuestionId(last.sid, sessions[last.sid].current_index))


C14_IncompleteWhenLengthsDiffer ==
    [][last'.op = "generate_feedback" =>
       \A sid \in DOMAIN sessions, summary \in SummaryReplies :
          (/\ Len(sessions[sid].responses) /= Len(sessions[sid].questions)
           /\ GenerateFeedbackBegin(sid, summary, TRUE))
          => /\ last'.code = "Incomplete"
             /\ sessions'[sid].status = sessions[sid].status
             /\ sessions'[sid].feedback = sessions[sid].feedback]_vars

\* C15: a session that has feedback or whose status is analyzed has at least
\* one question and as many responses as questions.
C15_FeedbackOnlyWhenAnswered ==
    \A sid \in DOMAIN sessions :
        LET session == sessions[sid]
        IN  (session.feedback /= None \/ session.status = "analyzed")
            => /\ Len(session.questions) > 0
               /\ Len(session.responses) = Len(session.questions)


\* C16: when generate_feedback analyses N question/response pairs and the
\* evaluation calls of any subset of them fail, it still succeeds, and the
\* detailed feedback it stores and returns has exactly N entries: the fixed
\* placeholder at every failing position and the result of the call at every
\* other position.
C16_FailuresStayLocal ==
    [][last'.op = "generate_feedback" /\ calls' /= calls =>
       \A call \in {c \in BagToSet(calls) : c.op = "generate_feedback"} :
       \A failing \in FailSets, summary \in SummaryReplies :
          (/\ call.op = "generate_feedback"
           /\ CopiesIn(call, calls') < CopiesIn(call, calls)
           /\ GenerateFeedbackResume(call, failing,
                                     InOrder(Zipped(call.actual, call.expected,
                                                    call.questions)),
                                     summary, TRUE))
          => LET N == Zipped(call.actual, call.expected, call.questions)
                 expect == [i \in 1..N |->
                              IF i \in failing THEN AnalysisErrorPlaceholder
                              ELSE Evaluation(call.questions[i], call.actual[i],
                                              call.expected[i])]
             IN  /\ last'.code = "ok"
                 /\ last'.value[1].detailed_feedback = expect
                 /\ call.sid \in DOMAIN sessions'
                    => sessions'[call.sid].feedback[1].detailed_feedback = expect]_vars

\* generate_feedback has just succeeded over the longest list of questions with
\* the first evaluation failed and the others not
C16_MixedFeedback ==
    /\ last.op = "generate_feedback"
    /\ last.code = "ok"
    /\ Len(last.value[1].detailed_feedback) = MaxQuestions
    /\ last.value[1].detailed_feedback[1] = AnalysisErrorPlaceholder
    /\ \A i \in 2..MaxQuestions : last.value[1].detailed_feedback[i].kind = "evaluation"


\* C17: cleanup_old_sessions(h) removes from the store exactly the sessions
\* with now - created_at > h * 3600, returns their number, and leaves every
\* other session in the store as it is.
C17_SweepRemovesExactlyOld ==
    [][last'.op = "cleanup_old_sessions" =>
       \A h \in MaxAgeInputs :
          CleanupOldSessions(h)
          => LET old == {sid \in DOMAIN sessions :
                            now - sessions[sid].created_at > h * SecondsPerHour}
             IN  /\ DOMAIN sessions' = DOMAIN sessions \ old
                 /\ \A sid \in DOMAIN sessions' : sessions'[sid] = sessions[sid]
                 /\ last'.code = "ok"
                 /\ last'.value = Some(Cardinality(old))]_vars

\* A sweep has just removed one of two sessions and kept the other, which is
\* in progress
C17_OneRemovedOneKept ==
    /\ last.op = "cleanup_old_sessions"
    /\ last.value = Some(1)
    /\ created = 2
    /\ \E sid \in DOMAIN sessions :
          /\ DOMAIN sessions = {sid}
          /\ sessions[sid].status = "in_progress"
          /\ now - sessions[sid].created_at = 0


\* The reply is NotFound and the step has changed no session and no file
RefusedAsUnknown ==
    /\ last'.code = "NotFound"
    /\ sessions' = sessions
    /\ detached' = detached
    /\ disk' = disk
    /\ calls' = calls
    /\ created' = created

\* C18: every operation of the service that takes a session id fails with
\* NotFound when the id is not in the store (never created, or removed by the
\* sweep), and neither creates a session nor changes one.
C18_UnknownIdNotFound ==
    [][\A sid \in SessionIds \ DOMAIN sessions :
          last'.sid = sid =>
          /\ GetSessionStatus(sid) => RefusedAsUnknown
          /\ \A file \in {f \in DocumentFiles : validate_document_file(f)} :
                ProcessCvBegin(sid, file) => RefusedAsUnknown
          /\ GetNextQuestion(sid, TRUE) => RefusedAsUnknown
          /\ \A qid \in QuestionIdInputs, audio_file \in {a \in AudioInputs : AllowedAudio(a)},
                text \in TextInputs :
                ProcessResponseBegin(sid, qid, audio_file, text, TRUE) => RefusedAsUnknown
          /\ \A summary \in SummaryReplies :
                GenerateFeedbackBegin(sid, summary, TRUE) => RefusedAsUnknown
          /\ GetInterviewResult(sid) => RefusedAsUnknown]_vars

\* generate_feedback has just been refused for a session the sweep removed,
\* while another session is in the store
C18_RefusedAfterSweep ==
    /\ last.op = "generate_feedback"
    /\ last.code = "NotFound"
    /\ last.sid \in DOMAIN acceptedIds
    /\ last.sid \notin DOMAIN sessions
    /\ DOMAIN sessions /= {}


\* C19: a submit_response that does not resolve to a non-empty text (no text
\* and no audio, audio whose transcript is empty, audio whose transcription
\* fails) fails and leaves the session, with its responses, cursor and status,
\* as it is.
C19_EmptyResponseRejected ==
    [][last'.op = "process_response" =>
       /\ \A sid \in {s \in SessionIds : last'.sid = s} :
          \A qid \in {q \in QuestionIdInputs : last'.arg = Some(q)} :
          \A text \in {t \in TextInputs : ~Truthy(t)} :
             ProcessResponseBegin(sid, qid, None, text, TRUE)
             => /\ last'.code \in {"NotFound", "InvalidState", "QuestionMismatch",
                                   "EmptyResponse"}
                /\ sessions' = sessions
                /\ acceptedIds' = acceptedIds
       /\ \A call \in BagToSet(calls),
             transcript \in {t \in Transcripts : t.error \/ t.text = <<>>} :
             (/\ call.op = "process_response"
              /\ ~Truthy(call.text)
              /\ ProcessResponseResume(call, transcript, TRUE))
             => /\ last'.code = IF transcript.error THEN "AudioError" ELSE "EmptyResponse"
                /\ sessions' = sessions
                /\ acceptedIds' = acceptedIds]_vars

\* A submit_response for the question at the cursor of a session in progress
\* has just been refused for want of a text
C19_EmptyAnswerRefused ==
    /\ last.op = "process_response"
    /\ last.code = "EmptyResponse"
    /\ last.sid \in DOMAIN sessions
    /\ sessions[last.sid].status = "in_progress"
    /\ last.arg = Some(QuestionId(last.sid, sessions[last.sid].current_index))
    /\ disk[last.sid].current_index = sessions[last.sid].current_index


\* The non-blank lines of a reply, stripped, in order
NonBlankLines(reply) ==
    SelectSeq([i \in 1..Len(reply.lines) |-> Strip(reply.lines[i])], LAMBDA q : q /= "")

\* C20: the CV questions a successful process_cv puts into the session are the
\* first at most 2 non-blank lines of the collaborator's reply when it has a
\* non-blank line, and the 2 fallback questions when the collaborator raises
\* or its reply has no non-blank line.
C20_FallbackOnEmptyReply ==
    [][last'.op = "process_cv" =>
       \A call \in BagToSet(calls), cv_text \in CvTexts, reply \in CvReplyInputs :
          (/\ call.op = "process_cv"
           /\ call.sid \in DOMAIN sessions
           /\ ProcessCvResume(call, cv_text, reply, TRUE)
           /\ last'.code = "ok")
          => LET lines == NonBlankLines(reply)
                 cv == SelectSeq(sessions'[call.sid].questions,
                                 LAMBDA q : q.type = "cv_based")
             IN  TextsOf(cv) =
                    IF reply.kind = "text" /\ Len(lines) >= 1
                    THEN SubSeq(lines, 1, Min(Len(lines), MaxCvQuestions))
                    ELSE FallbackCvQuestions]_vars


\* The operations the service counts as mutating
MutatingOps ==
    {"create_session", "process_cv", "get_next_question", "process_response",
     "generate_feedback"}

\* The feedback a metadata.json holds: None when the file has no such key
DurableFeedback(record) ==
    IF "feedback" \in DOMAIN record THEN Some(record.feedback) ELSE None

\* C21: when create_session, process_cv, the get_next_question that starts the
\* interview, process_response or generate_feedback returns success, the
\* metadata.json of the session agrees with the session in the store on the
\* status, the cursor, the questions, the responses and, when the session has
\* feedback, the feedback.
C21_DurableEqualsMemory ==
    [][(/\ last'.op \in MutatingOps
        /\ last'.code = "ok"
        /\ last'.sid \in DOMAIN sessions'
        /\ last'.op = "get_next_question"
           => /\ last'.sid \in DOMAIN sessions
              /\ sessions[last'.sid].status = "ready"
              /\ last'.value /= None)
       => /\ last'.sid \in DOMAIN disk'
          /\ LET session == sessions'[last'.sid]
                 record == disk'[last'.sid]
             IN  /\ record.status = session.status
                 /\ record.current_index = session.current_index
                 /\ Len(record.questions) = Len(session.questions)
                 /\ \A i \in 1..Len(session.questions) :
                       /\ record.questions[i].text = session.questions[i].text
                       /\ record.questions[i].type = session.questions[i].type
                 /\ TextsOf(record.responses) = TextsOf(session.responses)
                 /\ session.feedback /= None
                    => DurableFeedback(record) = session.feedback]_vars


\* C22: when the write of metadata.json fails in process_cv, get_next_question,
\* process_response or generate_feedback, the change the operation has made to
\* the session in the store is kept: the session is what the lines before the
\* write make it, as after a successful write, and the file is left as it was.
C22_FailedWriteKeepsMutation ==
    [][last'.code = "WriteError" /\ last'.op /= "create_session" =>
       /\ disk' = disk
       /\ \A sid \in {s \in DOMAIN sessions : last'.sid = s} :
             LET session == sessions[sid]
                 index == session.current_index + 1
                 answered(text, audio_path) ==
                     [session EXCEPT
                        !.responses = Append(@, [text |-> text, audio_path |-> audio_path,
                                                 sentiment |-> analyze_sentiment(text)]),
                        !.current_index = index,
                        !.status = IF index >= Len(session.questions)
                                   THEN "completed" ELSE @]
             IN  /\ GetNextQuestion(sid, FALSE)
                    => sessions' = [sessions EXCEPT ![sid].status = "in_progress"]
                 /\ \A qid \in {q \in QuestionIdInputs : last'.arg = Some(q)} :
                    \A text \in TextInputs :
                       ProcessResponseBegin(sid, qid, None, text, FALSE)
                       => sessions' = [sessions EXCEPT ![sid] = answered(text[1], None)]
                 /\ \A call \in {c \in BagToSet(calls) : c.sid = sid} :
                       /\ \A cv_text \in CvTexts, reply \in CvReplyInputs :
                             ProcessCvResume(call, cv_text, reply, FALSE)
                             => sessions' =
                                   [sessions EXCEPT
                                      ![sid].cv_path = Some(CvPath(sid, call.file)),
                                      ![sid].questions =
                                          CvQuestionList(_generate_cv_questions(reply),
                                                         standard_questions),
                                      ![sid].status = "ready"]
                       /\ \A transcript \in Transcripts :
                             ProcessResponseResume(call, transcript, FALSE)
                             => sessions' =
                                   [sessions EXCEPT ![sid] =
                                       answered(IF Truthy(call.text) THEN call.text[1]
                                                ELSE transcript.text,
                                                Some(AudioPath(sid, call.index)))]
                       /\ \A failing \in FailSets, summary \in SummaryReplies :
                          \A order \in IF call.op = "generate_feedback"
                                       THEN {InOrder(Zipped(call.actual, call.expected,
                                                            call.questions))}
                                       ELSE {} :
                             GenerateFeedbackResume(call, failing, order, summary, FALSE)
                             => sessions' =
                                   [sessions EXCEPT
                                      ![sid].feedback =
                                          Some(analyze_responses(call.actual, call.expected,
                                                                 call.questions, failing,
                                                                 order, summary)),
                                      ![sid].status = "analyzed"]]_vars

\* The write has just failed in the submit_response that answers the last
\* question: the session in the store is completed, the file still says
\* in_progress
C22_CompletedInMemoryOnly ==
    /\ last.op = "process_response"
    /\ last.code = "WriteError"
    /\ last.sid \in DOMAIN sessions
    /\ last.sid \in DOMAIN disk
    /\ sessions[last.sid].status = "completed"
    /\ Len(sessions[last.sid].responses) = Len(sessions[last.sid].questions)
    /\ disk[last.sid].status = "in_progress"


\* The number of words of the text that are, in lower case, in the list S
Matches(text, S) ==
    Cardinality({i \in 1..Len(Split(text)) : Lower(Split(text)[i]) \in S})

\* C23: analyze_sentiment gives the score 1 when the text has a word of the
\* positive list and none of the negative list, -1 when it has a word of the
\* negative list and none of the positive list, and score 0 with magnitude 0
\* when it has no word of either list (the empty text included); the score is
\* always within [-1, 1], and it is (pos - neg) / (pos + neg) when the text has
\* pos + neg > 0 words of the lists.
C23_SentimentScore ==
    last.op = "analyze_sentiment" =>
        LET text == last.arg[1]
            pos == Matches(text, positive_words)
            neg == Matches(text, negative_words)
            score == last.value[1].score
            magnitude == last.value[1].magnitude
        IN  /\ (pos >= 1 /\ neg = 0) => score = [num |-> 1, den |-> 1]
            /\ (neg >= 1 /\ pos = 0) => score = [num |-> -1, den |-> 1]
            /\ (pos + neg = 0) => /\ score = [num |-> 0, den |-> 1]
                                  /\ magnitude = [num |-> 0, den |-> 1]
            /\ score.den > 0
            /\ -score.den <= score.num /\ score.num <= score.den
            /\ (pos + neg > 0) => score.num * (pos + neg) = (pos - neg) * score.den

\* The scorer has just been applied to a text with two words of the positive
\* list, one of them written with a capital, and one of the negative list
C23_MixedTextScored ==
    /\ last.op = "analyze_sentiment"
    /\ last.arg = Some(<<"Good", " ", "fail", " ", "growth">>)
    /\ last.value[1].score = [num |-> 1, den |-> 3]


\* C24: a step of an operation on one session, whether or not a handler of
\* another session is suspended at the time, leaves every other session in the
\* store, with its status, cursor, questions, responses and feedback unchanged.
C24_OtherSessionsUntouched ==
    [][last'.sid \in SessionIds =>
       \A sid \in DOMAIN sessions \ {last'.sid} :
          /\ sid \in DOMAIN sessions'
          /\ sessions'[sid].status = sessions[sid].status
          /\ sessions'[sid].current_index = sessions[sid].current_index
          /\ sessions'[sid].questions = sessions[sid].questions
          /\ sessions'[sid].responses = sessions[sid].responses
          /\ sessions'[sid].feedback = sessions[sid].feedback]_vars

\* get_next_question has just started the interview of one session while the
\* submit_response of another session, which is in progress, is suspended at
\* its await
C24_StartedBesideSuspended ==
    /\ last.op = "get_next_question"
    /\ last.code = "ok"
    /\ last.value /= None
    /\ last.sid \in DOMAIN sessions
    /\ sessions[last.sid].status = "in_progress"
    /\ sessions[last.sid].responses = <<>>
    /\ \E call \in BagToSet(calls) :
          /\ call.op = "process_response"
          /\ call.sid /= last.sid
          /\ call.sid \in DOMAIN sessions
          /\ sessions[call.sid].status = "in_progress"


\* The session is analyzed on fallback content alone: the fallback CV questions
\* before the standard ones, a response to every question, the placeholder as
\* the feedback of every question, and the fallback summary
AnalyzedOnFallbacks(sid) ==
    /\ sid \in DOMAIN sessions
    /\ LET session == sessions[sid]
           N == Len(session.questions)
       IN  /\ session.status = "analyzed"
           /\ N = MaxCvQuestions + Len(standard_questions)
           /\ \A i \in 1..MaxCvQuestions : session.questions[i].text = FallbackCvQuestions[i]
           /\ Len(session.responses) = N
           /\ session.feedback /= None
           /\ session.feedback[1].detailed_feedback = [i \in 1..N |-> AnalysisErrorPlaceholder]
           /\ session.feedback[1].summary = CouldNotGenerateSummary

\* C25: while every generate_content call fails, every request of a client that
\* follows the protocol succeeds (process_cv, get_next_question,
\* process_response with a text, generate_feedback), and every session gets
\* from created to analyzed, on fallback content.
C25_OutageDoesNotBlock ==
    /\ [](last.code \in {"ok", "suspended"})
    /\ \A sid \in SessionIds : <>AnalyzedOnFallbacks(sid)

\* generate_feedback has just succeeded during the outage on a session with the
\* most questions
C25_AnalyzedDuringOutage ==
    /\ last.op = "generate_feedback"
    /\ last.code = "ok"
    /\ AnalyzedOnFallbacks(last.sid)
    /\ Len(sessions[last.sid].questions) = MaxQuestions
    /\ last.value[1].summary = CouldNotGenerateSummary
    /\ last.value[1].overall_score = None


\* C26: whatever the order in which the N evaluation calls of one
\* generate_feedback complete, entry i of the detailed feedback, as returned
\* and as stored, is the result of the call made for question i and response
\* i, and the summary call comes after all of them: its prompt is built from
\* the N results.
C26_FeedbackByPosition ==
    [][last'.op = "generate_feedback" /\ calls' /= calls =>
       \A call \in {c \in BagToSet(calls) : c.op = "generate_feedback"} :
       \A failing \in Live.failing, summary \in Live.summaries,
          order \in Orders(Zipped(call.actual, call.expected, call.questions)) :
          (/\ CopiesIn(call, calls') < CopiesIn(call, calls)
           /\ GenerateFeedbackResume(call, failing, order, summary, TRUE))
          => LET N == Zipped(call.actual, call.expected, call.questions)
                 result(i) == analyze_single_response(call.questions[i], call.actual[i],
                                                      call.expected[i], i \in failing)
                 returned == last'.value[1]
             IN  /\ Len(returned.detailed_feedback) = N
                 /\ \A i \in 1..N : returned.detailed_feedback[i] = result(i)
                 /\ returned.summary.kind = "summary"
                 /\ returned.summary.prompt =
                       [i \in 1..N |-> [question |-> call.questions[i],
                                        response |-> call.actual[i],
                                        feedback |-> result(i)]]
                 /\ call.sid \in DOMAIN sessions'
                    => sessions'[call.sid].feedback[1].detailed_feedback =
                          [i \in 1..N |-> result(i)]]_vars

\* generate_feedback has just returned the feedback of three questions, each
\* entry the evaluation of its own question, after a gather of three calls
C26_ThreeEvaluated ==
    /\ last.op = "generate_feedback"
    /\ last.code = "ok"
    /\ Len(last.value[1].detailed_feedback) = MaxQuestions
    /\ \A i \in 1..MaxQuestions :
          /\ last.value[1].detailed_feedback[i].kind = "evaluation"
          /\ last.value[1].detailed_feedback[i].question =
                sessions[last.sid].questions[i].text
    /\ Len(last.value[1].summary.prompt) = MaxQuestions


\* C27: generate_feedback on a session that is analyzed runs the analysis
\* again over the questions and responses of the session and succeeds; it
\* replaces the feedback of the session with the new result and leaves the
\* status analyzed and the questions, the responses and the cursor as they are.
C27_FeedbackRunAgain ==
    [][last'.op = "generate_feedback" =>
       \A sid \in {s \in DOMAIN sessions : last'.sid = s /\ sessions[s].status = "analyzed"} :
          LET session == sessions[sid]
              questions == TextsOf(session.questions)
              expected == ExpectedOf(session.questions)
              actual == TextsOf(session.responses)
              rerun(failing, order, summary) ==
                  [sessions EXCEPT
                     ![sid].feedback = Some(analyze_responses(actual, expected, questions,
                                                              failing, order, summary))]
          IN  /\ \A summary \in SummaryReplies :
                    GenerateFeedbackBegin(sid, summary, TRUE)
                    => \/ last'.code = "suspended" /\ sessions' = sessions
                       \/ last'.code = "ok" /\ sessions' = rerun({}, <<>>, summary)
              /\ \A call \in {c \in BagToSet(calls) : c.op = "generate_feedback"} :
                 \A failing \in FailSets, summary \in SummaryReplies :
                    GenerateFeedbackResume(call, failing,
                                           InOrder(Zipped(call.actual, call.expected,
                                                          call.questions)),
                                           summary, TRUE)
                    => /\ last'.code = "ok"
                       /\ sessions' = rerun(failing, InOrder(Zipped(actual, expected,
                                                                    questions)), summary)]_vars

\* generate_feedback is at its await on a session that is analyzed and has the
\* feedback of an earlier run over the longest list of questions
C27_RunningAgain ==
    \E call \in BagToSet(calls) :
        /\ call.op = "generate_feedback"
        /\ call.sid \in DOMAIN sessions
        /\ sessions[call.sid].status = "analyzed"
        /\ sessions[call.sid].feedback /= None
        /\ Len(sessions[call.sid].feedback[1].detailed_feedback) = MaxQuestions


\* C28: a listing with an age filter of h hours returns exactly the ids of the
\* sessions whose metadata.json was last written no more than h hours ago,
\* and a listing without a filter returns the id of every session that has a
\* metadata.json.
C28_ListingByAge ==
    last.op = "list_sessions"
    => last.value =
         Some({session_id \in DOMAIN disk :
                 \/ last.arg = None
                 \/ now - disk[session_id].st_mtime <= last.arg[1] * SecondsPerHour})


\* Every session that is in progress has a question at its cursor
InProgressHasQuestion ==
    \A session_id \in DOMAIN sessions :
        sessions[session_id].status = "in_progress"
        => sessions[session_id].current_index < Len(sessions[session_id].questions)

\* C29: whenever the status of a session is in_progress, its cursor is below
\* the number of its questions; and whenever submit_response gets past its
\* status check, the session has a question at the cursor at that moment.
C29_QuestionAtCursor ==
    [][/\ InProgressHasQuestion'
       /\ (/\ last'.op = "process_response"
           /\ BagCardinality(calls') >= BagCardinality(calls)
           /\ last'.code \notin {"InvalidFormat", "NotFound", "InvalidState"})
          => sessions[last'.sid].current_index < Len(sessions[last'.sid].questions)]_vars

\* A response has just been accepted and the interview goes on: the session is
\* in progress with its cursor on a later question
C29_AnsweredAndGoingOn ==
    /\ last.op = "process_response"
    /\ last.code = "ok"
    /\ last.sid \in DOMAIN sessions
    /\ sessions[last.sid].status = "in_progress"
    /\ sessions[last.sid].current_index > 0
    /\ sessions[last.sid].current_index < Len(sessions[last.sid].questions)


\* The operations of the service on one session
SessionOps ==
    {"get_session_status", "process_cv", "get_next_question", "process_response",
     "generate_feedback", "get_interview_result"}

\* C30: when the sweep has removed a session while submit_response, upload_cv
\* or generate_feedback on it was suspended at its await, the resumed handler
\* leaves the store without the session and writes no metadata.json; and
\* every operation that starts on the id of a removed session is refused as
\* not found and changes neither the store nor the disk.
C30_SweptSessionStaysGone ==
    [][/\ calls' /= calls
          => \A call \in BagToSet(calls) :
                (/\ CopiesIn(call, calls') < CopiesIn(call, calls)
                 /\ call.sid \notin DOMAIN sessions)
                => /\ sessions' = sessions
                   /\ disk' = disk
       /\ (/\ last'.op \in SessionOps
           /\ BagCardinality(calls') >= BagCardinality(calls)
           /\ last'.sid \in DOMAIN acceptedIds \ DOMAIN sessions)
          => /\ last'.code = "NotFound"
             /\ sessions' = sessions
             /\ disk' = disk
             /\ calls' = calls]_vars

\* submit_response has returned its response for a session that the sweep
\* removed while the handler was suspended on the audio file
C30_AnsweredAfterSweep ==
    /\ last.op = "process_response"
    /\ last.code = "ok"
    /\ last.sid \in DOMAIN acceptedIds
    /\ last.sid \notin DOMAIN sessions
    /\ Len(acceptedIds[last.sid]) > 0
    /\ last.sid \in DOMAIN disk
    /\ disk[last.sid].responses = <<>>

=============================================================================
